---- MODULE Spec2Model ----
(***************************************************************************)
(* Model of package mysqldb (db.go): the migration runner                  *)
(* DB.runMigrations with its in-line statement splitter and the            *)
(* __Migrations ledger.                                                    *)
(*                                                                         *)
(* Go strings are modelled as sequences of one-character strings; indices  *)
(* are 0-based as in the source (Slice converts to TLA+'s 1-based SubSeq). *)
(***************************************************************************)
EXTENDS Integers, Sequences, FiniteSets, TLC

(***************************************************************************)
(* Bounds of the model.                                                    *)
(***************************************************************************)
\* number of runner invocations (calls of runMigrations) in one behaviour
MaxRuns == 2
\* number of entries fs.ReadDir returns for the migrations directory
MaxEntries == 2
\* number of fragments in the free middle part of a generated script
MaxFrags == 4

Runs == 1..MaxRuns

(***************************************************************************)
(* Text helpers: package strings as used by runMigrations.                 *)
(***************************************************************************)
\* the literal ";" of `delim := ";"`
Semi == <<";">>
\* the literal "\n"
NL == <<"\n">>
\* the literal "delimiter " searched for by the scan loop
Directive == <<"d", "e", "l", "i", "m", "i", "t", "e", "r", " ">>

\* the white space strings.TrimSpace removes, restricted to the model's alphabet
IsSpace(c) == c \in {" ", "\n", "\t"}

RECURSIVE TrimLeft(_)
TrimLeft(s) ==
    IF s # <<>> /\ IsSpace(Head(s)) THEN TrimLeft(Tail(s)) ELSE s

RECURSIVE TrimRight(_)
TrimRight(s) ==
    IF s # <<>> /\ IsSpace(s[Len(s)])
    THEN TrimRight(SubSeq(s, 1, Len(s) - 1))
    ELSE s

\* strings.TrimSpace
TrimSpace(s) == TrimRight(TrimLeft(s))

\* s[lo:hi]
Slice(s, lo, hi) == SubSeq(s, lo + 1, hi)

\* s[lo:]
SliceFrom(s, lo) == SubSeq(s, lo + 1, Len(s))

\* sub occurs in s at 0-based offset i
OccursAt(s, sub, i) ==
    /\ i >= 0
    /\ i + Len(sub) <= Len(s)
    /\ Slice(s, i, i + Len(sub)) = sub

\* strings.Index: offset of the first occurrence of sub in s, -1 if none
\* (the empty string occurs at offset 0)
Index(s, sub) ==
    LET offs == {i \in 0..(Len(s) - Len(sub)) : OccursAt(s, sub, i)}
    IN  IF offs = {} THEN -1
        ELSE CHOOSE i \in offs : \A j \in offs : i <= j

\* strings.Replace(s, old, new, n) for non-empty old; n < 0 replaces all
RECURSIVE Replace(_, _, _, _)
Replace(s, old, new, n) ==
    LET i == Index(s, old)
    IN  IF n = 0 \/ i = -1 THEN s
        ELSE Slice(s, 0, i) \o new
               \o Replace(SliceFrom(s, i + Len(old)), old, new, n - 1)

(***************************************************************************)
(* One iteration of the scan loop `for sql != ""` of runMigrations, as a   *)
(* function of the remaining text and the current delimiter.  kind is      *)
(*   "malformed" : return "unexpected end of migration"                    *)
(*   "stmt"      : db.db.Exec(stmt), then continue (or break) with sql     *)
(*   "directive" : delimiter change, continue with sql and the new delim   *)
(*   "break"     : leave the loop                                          *)
(***************************************************************************)
\* the delimiter kept whatever it is
StmtAtInclusive(sql, delim, nextDelimIndex) ==
    Slice(sql, 0, nextDelimIndex + 1)

\* the statement cut out at a delimiter occurrence (lines 306-312)
StmtAt(sql, delim, nextDelimIndex) ==
    IF delim = Semi
    THEN Slice(sql, 0, nextDelimIndex + 1)
    ELSE Slice(sql, 0, nextDelimIndex)

\* the remaining text left untrimmed
AfterStmtUntrimmed(sql, delim, nextDelimIndex) ==
    SliceFrom(sql, nextDelimIndex + 1)

\* the remaining text taken from the delimiter occurrence itself
AfterStmtNoAdvance(sql, delim, nextDelimIndex) ==
    TrimSpace(SliceFrom(sql, nextDelimIndex))

\* the remaining text after a statement (line 321)
AfterStmt(sql, delim, nextDelimIndex) ==
    TrimSpace(SliceFrom(sql, nextDelimIndex + 1))

\* the condition of line 305: the delimiter occurrence is the next event
DelimFirst(nextDelimIndex, nextDelimChangeIndex) ==
    \/ nextDelimChangeIndex = -1
    \/ (nextDelimIndex # -1 /\ nextDelimIndex < nextDelimChangeIndex)

\* the new delimiter read off a directive line (lines 332-334)
NewDelim(sql, delimLineEndIndex) ==
    TrimSpace(Replace(Replace(Slice(sql, 0, delimLineEndIndex + 1),
                              Directive, <<>>, 1),
                      NL, <<>>, -1))

\* the loop left silently where the text ends without a delimiter
OnUnterminatedBreak(sql, delim) ==
    [kind |-> "break", stmt |-> <<>>, sql |-> <<>>, delim |-> delim]

\* lines 301-303: neither a delimiter nor a directive is left
OnUnterminated(sql, delim) ==
    [kind |-> "malformed", stmt |-> <<>>, sql |-> sql, delim |-> delim]

\* a directive line without a line break taken as an error
OnNoLineBreakMalformed(sql, delim) ==
    [kind |-> "malformed", stmt |-> <<>>, sql |-> sql, delim |-> delim]

\* lines 326-330: no line break is left after a delimiter change
OnNoLineBreak(sql, delim) ==
    [kind |-> "break", stmt |-> <<>>, sql |-> <<>>, delim |-> delim]

ScanStep(sql, delim) ==
    LET nextDelimIndex == Index(sql, delim)
        nextDelimChangeIndex == Index(sql, Directive)
        delimLineEndIndex == Index(sql, NL)
    IN  IF nextDelimIndex = -1 /\ nextDelimChangeIndex = -1
        THEN OnUnterminated(sql, delim)
        ELSE IF DelimFirst(nextDelimIndex, nextDelimChangeIndex)
        THEN [kind |-> "stmt",
              stmt |-> StmtAt(sql, delim, nextDelimIndex),
              sql |-> IF Len(sql) <= nextDelimIndex
                      THEN <<>>
                      ELSE AfterStmt(sql, delim, nextDelimIndex),
              delim |-> delim]
        ELSE IF delimLineEndIndex = -1
        THEN OnNoLineBreak(sql, delim)
        ELSE IF Len(sql) <= delimLineEndIndex
        THEN [kind |-> "break", stmt |-> <<>>, sql |-> <<>>,
              delim |-> NewDelim(sql, delimLineEndIndex)]
        ELSE [kind |-> "directive", stmt |-> <<>>,
              sql |-> TrimSpace(SliceFrom(sql, delimLineEndIndex + 1)),
              delim |-> NewDelim(sql, delimLineEndIndex)]

(***************************************************************************)
(* File names: path.Ext, strings.ToLower, sort.Strings.                    *)
(***************************************************************************)
\* the byte value of each character that occurs in a file name
ByteOf ==
    [c \in {".", "B", "L", "Q", "S", "a", "b", "d", "l", "q", "s", "t", "x"} |->
        CASE c = "." -> 46
          [] c = "B" -> 66
          [] c = "L" -> 76
          [] c = "Q" -> 81
          [] c = "S" -> 83
          [] c = "a" -> 97
          [] c = "b" -> 98
          [] c = "d" -> 100
          [] c = "l" -> 108
          [] c = "q" -> 113
          [] c = "s" -> 115
          [] c = "t" -> 116
          [] c = "x" -> 120]

\* Go's string comparison a < b: byte-wise, a proper prefix is smaller
RECURSIVE StrLess(_, _)
StrLess(a, b) ==
    IF b = <<>> THEN FALSE
    ELSE IF a = <<>> THEN TRUE
    ELSE IF ByteOf[Head(a)] # ByteOf[Head(b)]
    THEN ByteOf[Head(a)] < ByteOf[Head(b)]
    ELSE StrLess(Tail(a), Tail(b))

\* insert x into the sorted sequence s, keeping it sorted
RECURSIVE InsertSorted(_, _)
InsertSorted(x, s) ==
    IF s = <<>> THEN <<x>>
    ELSE IF StrLess(x, Head(s)) THEN <<x>> \o s
    ELSE <<Head(s)>> \o InsertSorted(x, Tail(s))

\* the slice left in enumeration order
SortStringsOmitted(s) == s

\* sort.Strings
RECURSIVE SortStrings(_)
SortStrings(s) ==
    IF s = <<>> THEN <<>> ELSE InsertSorted(Head(s), SortStrings(Tail(s)))

\* strings.ToLower on the characters of the model's alphabet
LowerChar(c) ==
    CASE c = "B" -> "b"
      [] c = "L" -> "l"
      [] c = "Q" -> "q"
      [] c = "S" -> "s"
      [] OTHER -> c

ToLower(s) == [i \in 1..Len(s) |-> LowerChar(s[i])]

\* path.Ext: the suffix beginning at the final dot, empty if there is no dot
RECURSIVE Ext(_)
Ext(name) ==
    IF name = <<>> THEN <<>>
    ELSE IF Ext(Tail(name)) # <<>> THEN Ext(Tail(name))
    ELSE IF Head(name) = "." THEN name
    ELSE <<>>

DotSql == <<".", "s", "q", "l">>

\* the filter without the test of the extension
RECURSIVE FilterEntriesAnyExt(_)
FilterEntriesAnyExt(es) ==
    IF es = <<>> THEN <<>>
    ELSE IF Head(es).isDir THEN FilterEntriesAnyExt(Tail(es))
    ELSE <<Head(es).name>> \o FilterEntriesAnyExt(Tail(es))

\* the filter of lines 268-274, in enumeration order
RECURSIVE FilterEntries(_)
FilterEntries(es) ==
    IF es = <<>> THEN <<>>
    ELSE IF Head(es).isDir \/ ToLower(Ext(Head(es).name)) # DotSql
    THEN FilterEntries(Tail(es))
    ELSE <<Head(es).name>> \o FilterEntries(Tail(es))

\* db.migrationsDir and path.Join(db.migrationsDir, migration)
MigrationsDir == <<"m">>
PathJoin(dir, name) == dir \o <<"/">> \o name

(***************************************************************************)
(* The ledger table __Migrations and the lookup of line 280.               *)
(***************************************************************************)
\* the rows of __Migrations whose Name is name
RowsNamed(rows, name) == {i \in 1..Len(rows) : rows[i].name = name}

\* the value row.Scan receives from
\*   SELECT COALESCE((SELECT b'1' FROM __Migrations WHERE Name = ?), b'0')
\* "error" stands for the server rejecting a scalar subquery of several rows
QueryMigrationResult(rows, name) ==
    IF Cardinality(RowsNamed(rows, name)) > 1 THEN "error"
    ELSE IF Cardinality(RowsNamed(rows, name)) = 1 THEN "0x01"
    ELSE "0x00"

\* Bool.Scan without the case for the byte 1
BoolScanNoTrue(b, src) ==
    CASE src = "0x00" -> FALSE
      [] OTHER -> b

\* Bool.Scan: the value of *b after scanning src into a Bool holding b
BoolScan(b, src) ==
    CASE src = "0x00" -> FALSE
      [] src = "0x01" -> TRUE
      [] OTHER -> b

(***************************************************************************)
(* Inputs: the migrations directory (db.migrationsFS, db.migrationsDir).   *)
(***************************************************************************)
NameASql == <<"a", ".", "s", "q", "l">>
NameBSql == <<"b", ".", "s", "q", "l">>
NameUpper == <<"B", ".", "S", "Q", "L">>
NameTxt == <<"a", ".", "t", "x", "t">>
NameDir == <<"d", ".", "s", "q", "l">>

\* the directory entries a migrations directory may hold
EntryPool ==
    {[name |-> NameASql, isDir |-> FALSE],
     [name |-> NameBSql, isDir |-> FALSE],
     [name |-> NameUpper, isDir |-> FALSE],
     [name |-> NameTxt, isDir |-> FALSE],
     [name |-> NameDir, isDir |-> TRUE]}

\* what fs.ReadDir may return: distinct entries in any enumeration order
Listings ==
    {l \in UNION {[1..n -> EntryPool] : n \in 0..MaxEntries} :
        \A i, j \in 1..Len(l) : i # j => l[i].name # l[j].name}

RegularNames(l) == {l[i].name : i \in {j \in 1..Len(l) : ~l[j].isDir}}

\* file contents used when several files are run
ScriptTwo == <<"a", ";", " ", "\n", "b", ";">>
ScriptUnterminated == <<"a", ";", "b">>
ScriptBlank == <<" ", "\n">>
RunnerScripts == {ScriptTwo, ScriptUnterminated, ScriptBlank}

\* file contents used when one file is split: an optional delimiter change
\* to "$$", a free middle part, and optionally the change back to ";"
DollarDollar == <<"$", "$">>
SelectOne == <<"S", "E", "L", "E", "C", "T", " ", "1", ";">>
Header == Directive \o DollarDollar \o NL
Trailer == DollarDollar \o NL \o Directive \o Semi \o NL \o SelectOne
Fragments == {<<"a">>, <<" ">>, NL, Semi, <<"$">>, DollarDollar, Directive}

RECURSIVE Flatten(_)
Flatten(fs) == IF fs = <<>> THEN <<>> ELSE Head(fs) \o Flatten(Tail(fs))

Middles == {Flatten(fs) : fs \in UNION {[1..n -> Fragments] : n \in 0..MaxFrags}}

SplitScripts ==
    Middles \cup {Header \o m : m \in Middles}
            \cup {Header \o m \o Trailer : m \in Middles}

(***************************************************************************)
(* State.                                                                  *)
(***************************************************************************)
VARIABLES
    entries,      \* the entries of the migrations directory, as enumerated
    files,        \* the contents of its regular files, by name
    tableExists,  \* the table __Migrations exists
    ledger,       \* the rows of __Migrations: [name, run that inserted it]
    pc,           \* position of each runner invocation in runMigrations
    migrations,   \* its sorted slice `migrations`
    idx,          \* its position in `for _, migration := range migrations`
    sql,          \* its remaining script text `sql`
    delim,        \* its current delimiter `delim`
    err,          \* the error it returned: [op, arg]
    executed,     \* the statements it passed to db.db.Exec: [file, stmt]
    reads,        \* the files it passed to fs.ReadFile
    startLedger,  \* the ledger as it was when the invocation began
    failures,     \* the steps of it that failed: [step, file]
    \* the DB value and the server, as NewDB, the options and Close see them
    d,            \* the fields of the DB struct set by the options
    lastOption,   \* the option applied last
    opc,          \* the position of NewDB or Close
    dbExists,     \* the target database exists on the server
    dbObjects,    \* it holds objects other than the __Migrations table
    calls,        \* what was asked of the server: [by, conn, op, ok]
    retErr,       \* the error NewDB or Close returned: [op, arg]
    \* the facade
    tx,           \* the state of the transaction of BeginTx
    facade        \* the last facade call and what it handed on

lifeVars == <<d, lastOption, opc, dbExists, dbObjects, calls, retErr, tx,
              facade>>

vars == <<entries, files, tableExists, ledger, pc, migrations, idx, sql,
          delim, err, executed, reads, startLedger, failures, lifeVars>>

NoErr == [op |-> "", arg |-> <<>>]

(***************************************************************************)
(* The DB struct and its options.                                          *)
(***************************************************************************)
\* the file systems and directories an option can name
FsA == "fsA"
FsB == "fsB"
NoFS == "nil"
NoDir == <<>>
FileSystems == {FsA, FsB}
Dirs == {NoDir, MigrationsDir}

\* d := &DB{name: cfg.DBName, dsn: dsn}
ZeroDB ==
    [name |-> "db", dsn |-> "dsn", autoCreate |-> FALSE, dropExisting |-> FALSE, migrationsDir |-> NoDir,
     migrationsFS |-> NoFS, dropOnClose |-> FALSE]

\* AutoCreateDB
AutoCreateDB(db) == [db EXCEPT !.autoCreate = TRUE]

\* DropExistingDB
DropExistingDB(db) == [db EXCEPT !.dropExisting = TRUE]

\* WithMigrations, the directory left as it was
WithMigrationsFSOnly(db, fsys, dir) == [db EXCEPT !.migrationsFS = fsys]

\* WithMigrations(fs, dir)
WithMigrations(db, fsys, dir) ==
    [db EXCEPT !.migrationsFS = fsys, !.migrationsDir = dir]

\* DropDBOnClose
DropDBOnClose(db) == [db EXCEPT !.dropOnClose = TRUE]

\* the values of type Option
Options ==
    {[opt |-> o, fsys |-> NoFS, dir |-> NoDir] :
        o \in {"AutoCreateDB", "DropExistingDB", "DropDBOnClose"}}
    \cup {[opt |-> "WithMigrations", fsys |-> f, dir |-> dr] :
            f \in FileSystems, dr \in Dirs}

NoOption == [opt |-> "", fsys |-> NoFS, dir |-> NoDir]

\* o(d)
Apply(o, db) ==
    CASE o.opt = "AutoCreateDB" -> AutoCreateDB(db)
      [] o.opt = "DropExistingDB" -> DropExistingDB(db)
      [] o.opt = "DropDBOnClose" -> DropDBOnClose(db)
      [] o.opt = "WithMigrations" -> WithMigrations(db, o.fsys, o.dir)

\* one request to the server: by NewDB or Close, on the administrative or
\* the main connection
Call(by, conn, op, ok) == [by |-> by, conn |-> conn, op |-> op, ok |-> ok]

\* no facade call yet
NoCall ==
    [variant |-> "", method |-> "", query |-> "", args |-> <<>>,
     passedQuery |-> "", passedArgs |-> <<>>]

\* a DB that NewDB has opened, with WithMigrations only, up to the call of
\* runMigrations
InitAtMigrations ==
    /\ d = WithMigrations(ZeroDB, FsA, MigrationsDir)
    /\ lastOption = [opt |-> "WithMigrations", fsys |-> FsA,
                     dir |-> MigrationsDir]
    /\ opc = "migrations"
    /\ dbExists = TRUE
    /\ dbObjects = FALSE
    /\ calls = <<Call("NewDB", "main", "open", TRUE),
                 Call("NewDB", "main", "ping", TRUE)>>
    /\ retErr = NoErr
    /\ tx = "none"
    /\ facade = NoCall

InitRunners ==
    /\ tableExists = FALSE
    /\ ledger = <<>>
    /\ pc = [r \in Runs |-> "idle"]
    /\ migrations = [r \in Runs |-> <<>>]
    /\ idx = [r \in Runs |-> 0]
    /\ sql = [r \in Runs |-> <<>>]
    /\ delim = [r \in Runs |-> Semi]
    /\ err = [r \in Runs |-> NoErr]
    /\ executed = [r \in Runs |-> <<>>]
    /\ reads = [r \in Runs |-> {}]
    /\ startLedger = [r \in Runs |-> <<>>]
    /\ failures = [r \in Runs |-> {}]

\* several files, few scripts
Init ==
    /\ entries \in Listings
    /\ files \in [RegularNames(entries) -> RunnerScripts]
    /\ InitRunners
    /\ InitAtMigrations

\* one file, many scripts
InitSplit ==
    /\ entries = <<[name |-> NameASql, isDir |-> FALSE]>>
    /\ files \in [{NameASql} -> SplitScripts]
    /\ InitRunners
    /\ InitAtMigrations

(***************************************************************************)
(* runMigrations, one action per step that touches the database or the     *)
(* file system.                                                            *)
(***************************************************************************)
\* the loop variable `migration`
Migration(r) == migrations[r][idx[r]]

\* step `step` of invocation r failed while it was at file `file`
Failed(r, step, file) ==
    failures' = [failures EXCEPT ![r] = @ \cup {[step |-> step, file |-> file]}]

\* the error dropped and nil returned
FailSwallowed(r, op, arg) ==
    /\ pc' = [pc EXCEPT ![r] = "done"]
    /\ UNCHANGED err

\* return fmt.Errorf(op ..., arg)
Fail(r, op, arg) ==
    /\ pc' = [pc EXCEPT ![r] = "failed"]
    /\ err' = [err EXCEPT ![r] = [op |-> op, arg |-> arg]]

\* moving to the next element of `migrations`, or returning nil after the last
NextMigration(r) ==
    IF idx[r] < Len(migrations[r])
    THEN /\ pc' = [pc EXCEPT ![r] = "query"]
         /\ idx' = [idx EXCEPT ![r] = idx[r] + 1]
    ELSE /\ pc' = [pc EXCEPT ![r] = "done"]
         /\ UNCHANGED idx

\* lines 250-259: CREATE TABLE IF NOT EXISTS __Migrations
\* (invocations are numbered in the order in which they begin)
CreateMigrationsTable(r) ==
    /\ pc[r] = "idle"
    /\ \A q \in Runs : q < r => pc[q] # "idle"
    /\ startLedger' = [startLedger EXCEPT ![r] = ledger]
    /\ \E ok \in BOOLEAN :
          IF ok
          THEN /\ tableExists' = TRUE
               /\ pc' = [pc EXCEPT ![r] = "readDir"]
               /\ UNCHANGED <<err, failures>>
          ELSE /\ Fail(r, "creating migrations table", <<>>)
               /\ Failed(r, "createTable", <<>>)
               /\ UNCHANGED tableExists
    /\ UNCHANGED lifeVars
    /\ UNCHANGED <<entries, files, ledger, migrations, idx, sql, delim,
                   executed, reads>>

\* an invocation that begins while no other invocation is running
StartAlone(r) ==
    /\ \A q \in Runs : pc[q] \in {"idle", "done", "failed"}
    /\ CreateMigrationsTable(r)

\* lines 261-276: fs.ReadDir, the filter and sort.Strings
ReadDir(r) ==
    /\ pc[r] = "readDir"
    /\ \E ok \in BOOLEAN :
          IF ok
          THEN LET ms == SortStrings(FilterEntries(entries))
               IN  /\ migrations' = [migrations EXCEPT ![r] = ms]
                   /\ idx' = [idx EXCEPT ![r] = IF ms = <<>> THEN 0 ELSE 1]
                   /\ pc' = [pc EXCEPT ![r] =
                                IF ms = <<>> THEN "done" ELSE "query"]
                   /\ UNCHANGED <<err, failures>>
          ELSE /\ Fail(r, "reading migrations directory", <<>>)
               /\ Failed(r, "readDir", <<>>)
               /\ UNCHANGED <<migrations, idx>>
    /\ UNCHANGED lifeVars
    /\ UNCHANGED <<entries, files, tableExists, ledger, sql, delim,
                   executed, reads, startLedger>>

\* the check of `exists` left out
SkipMigrationNever(exists) == FALSE

\* line 285: `if exists { continue }`
SkipMigration(exists) == exists

\* lines 279-287: the ledger lookup
QueryMigration(r) ==
    /\ pc[r] = "query"
    /\ \E ok \in BOOLEAN :
          LET res == QueryMigrationResult(ledger, Migration(r))
          IN  IF ~ok \/ res = "error"
              THEN /\ Fail(r, "querying for migration", <<>>)
                   /\ Failed(r, "query", Migration(r))
                   /\ UNCHANGED idx
              ELSE /\ UNCHANGED <<err, failures>>
                   /\ IF SkipMigration(BoolScan(FALSE, res))
                      THEN NextMigration(r)
                      ELSE /\ pc' = [pc EXCEPT ![r] = "readFile"]
                           /\ UNCHANGED idx
    /\ UNCHANGED lifeVars
    /\ UNCHANGED <<entries, files, tableExists, ledger, migrations, sql,
                   delim, executed, reads, startLedger>>

\* lines 289-296: fs.ReadFile, TrimSpace, delim := ";"
ReadFile(r) ==
    /\ pc[r] = "readFile"
    /\ reads' = [reads EXCEPT ![r] = @ \cup {Migration(r)}]
    /\ \E ok \in BOOLEAN :
          IF ok
          THEN LET text == TrimSpace(files[Migration(r)])
               IN  /\ sql' = [sql EXCEPT ![r] = text]
                   /\ delim' = [delim EXCEPT ![r] = Semi]
                   /\ pc' = [pc EXCEPT ![r] =
                                IF text = <<>> THEN "insert" ELSE "scan"]
                   /\ UNCHANGED <<err, failures>>
          ELSE /\ Fail(r, "reading file", PathJoin(MigrationsDir, Migration(r)))
               /\ Failed(r, "readFile", Migration(r))
               /\ UNCHANGED <<sql, delim>>
    /\ UNCHANGED lifeVars
    /\ UNCHANGED <<entries, files, tableExists, ledger, migrations, idx,
                   executed, startLedger>>

\* the error of db.db.Exec not checked
AfterExecUnchecked(ok, rest) ==
    IF rest = <<>> THEN "insert" ELSE "scan"

\* lines 314-323 and the loop condition: where the invocation stands after
\* db.db.Exec(stmt) returned (ok: without error) and rest is the new `sql`
AfterExec(ok, rest) ==
    IF ~ok THEN "failed"
    ELSE IF rest = <<>> THEN "insert"
    ELSE "scan"

\* lines 297-342: one iteration of the scan loop
ScanStatement(r) ==
    /\ pc[r] = "scan"
    /\ LET st == ScanStep(sql[r], delim[r])
       IN  CASE st.kind = "malformed" ->
                  /\ Fail(r, "unexpected end of migration", Migration(r))
                  /\ Failed(r, "split", Migration(r))
                  /\ UNCHANGED <<sql, delim, executed>>
             [] st.kind = "stmt" ->
                  /\ executed' = [executed EXCEPT ![r] =
                        Append(@, [file |-> Migration(r), stmt |-> st.stmt])]
                  /\ \E ok \in BOOLEAN :
                        /\ IF ok THEN UNCHANGED failures
                           ELSE Failed(r, "exec", Migration(r))
                        /\ IF AfterExec(ok, st.sql) = "failed"
                           THEN /\ Fail(r, "executing migration statement", <<>>)
                                /\ UNCHANGED sql
                           ELSE /\ pc' = [pc EXCEPT ![r] = AfterExec(ok, st.sql)]
                                /\ sql' = [sql EXCEPT ![r] = st.sql]
                                /\ UNCHANGED err
                  /\ UNCHANGED delim
             [] st.kind = "directive" ->
                  /\ sql' = [sql EXCEPT ![r] = st.sql]
                  /\ delim' = [delim EXCEPT ![r] = st.delim]
                  /\ pc' = [pc EXCEPT ![r] =
                               IF st.sql = <<>> THEN "insert" ELSE "scan"]
                  /\ UNCHANGED <<err, executed, failures>>
             [] st.kind = "break" ->
                  /\ delim' = [delim EXCEPT ![r] = st.delim]
                  /\ pc' = [pc EXCEPT ![r] = "insert"]
                  /\ UNCHANGED <<sql, err, executed, failures>>
    /\ UNCHANGED lifeVars
    /\ UNCHANGED <<entries, files, tableExists, ledger, migrations, idx,
                   reads, startLedger>>

\* lines 344-347: INSERT INTO __Migrations(Name) VALUES (?)
InsertMigrationRecord(r) ==
    /\ pc[r] = "insert"
    /\ \E ok \in BOOLEAN :
          IF ok
          THEN /\ ledger' = Append(ledger, [name |-> Migration(r), run |-> r])
               /\ NextMigration(r)
               /\ UNCHANGED <<err, failures>>
          ELSE /\ Fail(r, "inserting migration record", Migration(r))
               /\ Failed(r, "insert", Migration(r))
               /\ UNCHANGED <<ledger, idx>>
    /\ UNCHANGED lifeVars
    /\ UNCHANGED <<entries, files, tableExists, migrations, sql, delim,
                   executed, reads, startLedger>>

\* the steps after the first, common to all specifications
Step(r) ==
    \/ ReadDir(r)
    \/ QueryMigration(r)
    \/ ReadFile(r)
    \/ ScanStatement(r)
    \/ InsertMigrationRecord(r)

\* invocations one after the other
Next == \E r \in Runs : StartAlone(r) \/ Step(r)
Spec == Init /\ [][Next]_vars

\* one invocation over one file of any of the generated scripts
NextSplit == StartAlone(1) \/ Step(1)
SpecSplit == InitSplit /\ [][NextSplit]_vars

\* invocations that may overlap on the same database
NextConc == \E r \in Runs : CreateMigrationsTable(r) \/ Step(r)
SpecConc == Init /\ [][NextConc]_vars

(***************************************************************************)
(* NewDB and Close, one action per request to the server.                  *)
(***************************************************************************)
runVars == <<entries, files, pc, migrations, idx, sql, delim, err, executed,
             reads, startLedger, failures>>

\* where one of the two administrative helpers stops: at sql.Open, at Ping,
\* at Exec, or not at all
AdminOutcomes == {"open", "ping", "exec", "ok"}

\* lines 211-247: the requests of createDatabaseIfNotExist (stmt "CREATE")
\* and of dropExistingDatabaseIfExist (stmt "DROP")
AdminCalls(by, stmt, out) ==
    CASE out = "open" -> <<Call(by, "admin", "open", FALSE)>>
      [] out = "ping" -> <<Call(by, "admin", "open", TRUE),
                           Call(by, "admin", "ping", FALSE)>>
      [] out = "exec" -> <<Call(by, "admin", "open", TRUE),
                           Call(by, "admin", "ping", TRUE),
                           Call(by, "admin", stmt, FALSE)>>
      [] out = "ok" -> <<Call(by, "admin", "open", TRUE),
                         Call(by, "admin", "ping", TRUE),
                         Call(by, "admin", stmt, TRUE)>>

\* lines 211-247: the error the helper returns
AdminErr(stmt, out) ==
    CASE out = "open" -> "opening database"
      [] out = "ping" -> "pinging database"
      [] out = "exec" -> IF stmt = "DROP" THEN "dropping database"
                         ELSE "creating database"
      [] out = "ok" -> ""

\* DROP DATABASE IF EXISTS: the database is gone with all it held
Dropped ==
    /\ dbExists' = FALSE
    /\ dbObjects' = FALSE
    /\ tableExists' = FALSE
    /\ ledger' = <<>>

\* lines 143-146: mysql.ParseDSN
ParseDSN ==
    /\ opc = "parse"
    /\ \E ok \in BOOLEAN :
          IF ok
          THEN /\ opc' = "options"
               /\ UNCHANGED retErr
          ELSE /\ opc' = "openFailed"
               /\ retErr' = [op |-> "parsing dsn", arg |-> ""]
    /\ UNCHANGED <<d, lastOption, dbExists, dbObjects, calls, tx, facade,
                   tableExists, ledger, runVars>>

\* lines 149-151: one turn of `for _, o := range options { o(d) }`
ApplyOption(o) ==
    /\ opc = "options"
    /\ d' = Apply(o, d)
    /\ lastOption' = o
    /\ UNCHANGED <<opc, dbExists, dbObjects, calls, retErr, tx, facade,
                   tableExists, ledger, runVars>>

\* lines 153-159: the end of the options and `if d.dropExisting`
DropExisting ==
    /\ opc = "options"
    /\ IF d.dropExisting
       THEN \E out \in AdminOutcomes :
               /\ calls' = calls \o AdminCalls("NewDB", "DROP", out)
               /\ IF out = "ok"
                  THEN /\ Dropped
                       /\ opc' = "create"
                       /\ UNCHANGED retErr
                  ELSE /\ opc' = "openFailed"
                       /\ retErr' = [op |-> "dropping existing database",
                                     arg |-> AdminErr("DROP", out)]
                       /\ UNCHANGED <<dbExists, dbObjects, tableExists,
                                      ledger>>
       ELSE /\ opc' = "create"
            /\ UNCHANGED <<calls, retErr, dbExists, dbObjects, tableExists,
                           ledger>>
    /\ UNCHANGED <<d, lastOption, tx, facade, runVars>>

\* lines 161-167: `if d.autoCreate`
AutoCreate ==
    /\ opc = "create"
    /\ IF d.autoCreate
       THEN \E out \in AdminOutcomes :
               /\ calls' = calls \o AdminCalls("NewDB", "CREATE", out)
               /\ IF out = "ok"
                  THEN /\ dbExists' = TRUE
                       /\ opc' = "open"
                       /\ UNCHANGED retErr
                  ELSE /\ opc' = "openFailed"
                       /\ retErr' = [op |-> "auto-creating database",
                                     arg |-> AdminErr("CREATE", out)]
                       /\ UNCHANGED dbExists
       ELSE /\ opc' = "open"
            /\ UNCHANGED <<calls, retErr, dbExists>>
    /\ UNCHANGED <<d, lastOption, dbObjects, tx, facade, tableExists, ledger,
                   runVars>>

\* lines 169-172: sql.Open
OpenMain ==
    /\ opc = "open"
    /\ \E ok \in BOOLEAN :
          /\ calls' = Append(calls, Call("NewDB", "main", "open", ok))
          /\ IF ok
             THEN /\ opc' = "ping"
                  /\ UNCHANGED retErr
             ELSE /\ opc' = "openFailed"
                  /\ retErr' = [op |-> "opening database", arg |-> ""]
    /\ UNCHANGED <<d, lastOption, dbExists, dbObjects, tx, facade,
                   tableExists, ledger, runVars>>

\* the error of Ping not checked
AfterPingUnchecked(ok, db) ==
    IF db.migrationsDir # NoDir THEN "migrations" ELSE "opened"

\* lines 174-178: where NewDB stands after d.db.Ping() returned
AfterPing(ok, db) ==
    IF ~ok THEN "openFailed"
    ELSE IF db.migrationsDir # NoDir THEN "migrations"
    ELSE "opened"

\* lines 174-177: Ping, which needs the database to exist; its error is
\* returned as it is
Ping ==
    /\ opc = "ping"
    /\ \E ok \in (IF dbExists THEN BOOLEAN ELSE {FALSE}) :
          /\ opc' = AfterPing(ok, d)
          /\ IF ok
             THEN /\ calls' = Append(calls, Call("NewDB", "main", "ping", TRUE))
                  /\ UNCHANGED retErr
             ELSE /\ calls' = calls \o
                        <<Call("NewDB", "main", "ping", FALSE),
                          Call("NewDB", "main", "close", TRUE)>>
                  /\ retErr' = [op |-> "", arg |-> "ping"]
    /\ UNCHANGED <<d, lastOption, dbExists, dbObjects, tx, facade,
                   tableExists, ledger, runVars>>

\* line 179: the steps of d.runMigrations()
Migrate ==
    /\ opc = "migrations"
    /\ CreateMigrationsTable(1) \/ Step(1)

\* lines 179-185: runMigrations has returned
MigrationsReturn ==
    /\ opc = "migrations"
    /\ pc[1] \in {"done", "failed"}
    /\ IF pc[1] = "done"
       THEN /\ opc' = "opened"
            /\ UNCHANGED <<calls, retErr>>
       ELSE /\ opc' = "openFailed"
            /\ calls' = Append(calls, Call("NewDB", "main", "close", TRUE))
            /\ retErr' = [op |-> "running migrations", arg |-> err[1].op]
    /\ UNCHANGED <<d, lastOption, dbExists, dbObjects, tx, facade,
                   tableExists, ledger, runVars>>

\* the drop not made to depend on the result of db.db.Close()
DropsOnCloseAlways(ok, db) == db.dropOnClose

\* lines 193-200: Close goes on to the administrative drop
DropsOnClose(ok, db) == ok /\ db.dropOnClose

\* lines 192-209: Close
Close ==
    /\ opc = "opened"
    /\ \E ok \in BOOLEAN :
          LET closed == Append(calls, Call("Close", "main", "close", ok))
          IN  IF DropsOnClose(ok, d)
              THEN \E out \in AdminOutcomes :
                      /\ calls' = closed \o AdminCalls("Close", "DROP", out)
                      /\ IF out = "ok"
                         THEN /\ Dropped
                              /\ opc' = "closed"
                              /\ UNCHANGED retErr
                         ELSE /\ opc' = "closeFailed"
                              /\ retErr' = [op |-> AdminErr("DROP", out),
                                            arg |-> ""]
                              /\ UNCHANGED <<dbExists, dbObjects,
                                             tableExists, ledger>>
              ELSE /\ calls' = closed
                   /\ IF ok
                      THEN /\ opc' = "closed"
                           /\ UNCHANGED retErr
                      ELSE /\ opc' = "closeFailed"
                           /\ retErr' = [op |-> "closing database",
                                         arg |-> ""]
                   /\ UNCHANGED <<dbExists, dbObjects, tableExists, ledger>>
    /\ UNCHANGED <<d, lastOption, tx, facade, runVars>>

\* a server on which the target database may exist and may hold objects,
\* and one migration file
InitOpen ==
    /\ entries = <<[name |-> NameASql, isDir |-> FALSE]>>
    /\ files \in [{NameASql} -> RunnerScripts]
    /\ InitRunners
    /\ d = ZeroDB
    /\ lastOption = NoOption
    /\ opc = "parse"
    /\ dbExists \in BOOLEAN
    /\ dbObjects \in {FALSE, dbExists}
    /\ calls = <<>>
    /\ retErr = NoErr
    /\ tx = "none"
    /\ facade = NoCall

\* NewDB with any options, and Close after it
NextOpen ==
    \/ ParseDSN
    \/ \E o \in Options : ApplyOption(o)
    \/ DropExisting
    \/ AutoCreate
    \/ OpenMain
    \/ Ping
    \/ Migrate
    \/ MigrationsReturn
    \/ Close
SpecOpen == InitOpen /\ [][NextOpen]_vars

(***************************************************************************)
(* The facade: Exec, Query and QueryRow of DB and of Tx.                   *)
(***************************************************************************)
MaxArgs == 2

\* a Go value of type interface{}: a scalar, or a []interface{}
Scalar(x) == [kind |-> "scalar", val |-> x, elems |-> <<>>]
SliceValue(s) == [kind |-> "slice", val |-> 0, elems |-> s]

Methods == {"Exec", "Query", "QueryRow"}
Queries == {"q1", "q2"}
ArgValues == {Scalar(1), Scalar(2)}

\* the values of `args ...interface{}`
ArgLists == UNION {[1..n -> ArgValues] : n \in 0..MaxArgs}

\* lines 40, 44, 48, 65, 69, 73: `args` handed on without `...` is one
\* argument, the slice itself
PassOn(args) == <<SliceValue(args)>>

\* lines 28-37: BeginTx
BeginTx ==
    /\ opc = "opened"
    /\ tx # "open"
    /\ \E ok \in BOOLEAN : tx' = IF ok THEN "open" ELSE tx
    /\ UNCHANGED <<d, lastOption, opc, dbExists, dbObjects, calls, retErr,
                   facade, tableExists, ledger, runVars>>

\* lines 56-62: Rollback and Commit
EndTx ==
    /\ tx = "open"
    /\ tx' = "done"
    /\ UNCHANGED <<d, lastOption, opc, dbExists, dbObjects, calls, retErr,
                   facade, tableExists, ledger, runVars>>

\* lines 39-49 and 64-74: one of the six methods
FacadeCall(variant, method, query, args) ==
    /\ opc = "opened"
    /\ variant = "Tx" => tx = "open"
    /\ facade' = [variant |-> variant, method |-> method, query |-> query,
                  args |-> args, passedQuery |-> query,
                  passedArgs |-> PassOn(args)]
    /\ UNCHANGED <<d, lastOption, opc, dbExists, dbObjects, calls, retErr,
                   tx, tableExists, ledger, runVars>>

\* a DB that NewDB has opened without options
InitFacade ==
    /\ entries = <<[name |-> NameASql, isDir |-> FALSE]>>
    /\ files = [f \in {NameASql} |-> ScriptTwo]
    /\ InitRunners
    /\ d = ZeroDB
    /\ lastOption = NoOption
    /\ opc = "opened"
    /\ dbExists = TRUE
    /\ dbObjects \in BOOLEAN
    /\ calls = <<Call("NewDB", "main", "open", TRUE),
                 Call("NewDB", "main", "ping", TRUE)>>
    /\ retErr = NoErr
    /\ tx = "none"
    /\ facade = NoCall

NextFacade ==
    \/ BeginTx
    \/ EndTx
    \/ \E v \in {"DB", "Tx"}, m \in Methods, q \in Queries, a \in ArgLists :
          FacadeCall(v, m, q, a)
SpecFacade == InitFacade /\ [][NextFacade]_vars

(***************************************************************************)
(* Properties of the runner.                                               *)
(***************************************************************************)
\* the rows of the ledger that invocation r inserted
RowsBy(r) == {i \in 1..Len(ledger) : ledger[i].run = r}

\* the files in which the read, the split or a statement failed in run r
FailedIn(r) ==
    {x.file : x \in {y \in failures[r] : y.step \in {"readFile", "split", "exec"}}}

\* the names recorded in a ledger
NamesIn(rows) == {rows[i].name : i \in 1..Len(rows)}

\* the files of the directory that are migrations: regular, extension .sql
MigrationNames ==
    {n \in RegularNames(entries) : ToLower(Ext(n)) = DotSql}

\* a is before b in byte-lexical order, stated without recursion
ByteLexLess(a, b) ==
    \E k \in 0..Len(a) :
        /\ k <= Len(b)
        /\ SubSeq(a, 1, k) = SubSeq(b, 1, k)
        /\ \/ (k = Len(a) /\ k < Len(b))
           \/ (k < Len(a) /\ k < Len(b) /\ ByteOf[a[k + 1]] < ByteOf[b[k + 1]])

\* C1: a run in which the read, the split or a statement of a file failed has
\* inserted no __Migrations record for that file, and every record a run
\* inserted is for a file that run read.
C1_RecordOnlyAfterSuccess ==
    \A r \in Runs : \A i \in RowsBy(r) :
        /\ ledger[i].name \notin FailedIn(r)
        /\ ledger[i].name \in reads[r]

\* a run recorded one file and then failed in the next one
C1_Witness ==
    \E r \in Runs :
        /\ pc[r] = "failed"
        /\ FailedIn(r) # {}
        /\ RowsBy(r) # {}
        /\ \E i \in 1..Len(executed[r]) : executed[r][i].file \in FailedIn(r)

\* C2: with invocations one after the other, aborted ones included, every
\* migration name appears at most once in the ledger.
C2_NameAtMostOnce ==
    \A i, j \in 1..Len(ledger) : ledger[i].name = ledger[j].name => i = j

\* a first run aborted in a file, a later run applied and recorded that file,
\* and skipped a file the first run had recorded
C2_Witness ==
    \E r, q \in Runs :
        /\ r < q
        /\ pc[r] = "failed"
        /\ pc[q] = "done"
        /\ \E f \in FailedIn(r) : \E i \in RowsBy(q) : ledger[i].name = f
        /\ RowsBy(r) # {}

\* C3: when two overlapping invocations both find a file not yet run and both
\* read and execute it, at most one of them gets its record into the ledger.
C3_SecondInsertRejected ==
    \A r, q \in Runs : \A f \in reads[r] \cap reads[q] :
        r # q =>
            ~ /\ \E i \in RowsBy(r) : ledger[i].name = f
              /\ \E j \in RowsBy(q) : ledger[j].name = f

\* C4: a file recorded before an invocation began is neither read nor executed
\* by it and keeps its ledger rows; an invocation over a source whose
\* migrations are all recorded executes nothing and leaves the ledger as it was.
C4_Idempotent ==
    \A r \in Runs :
        pc[r] # "idle" =>
            /\ \A f \in NamesIn(startLedger[r]) :
                  /\ f \notin reads[r]
                  /\ \A i \in 1..Len(executed[r]) : executed[r][i].file # f
                  /\ RowsNamed(ledger, f) = RowsNamed(startLedger[r], f)
            /\ MigrationNames \subseteq NamesIn(startLedger[r]) =>
                  /\ executed[r] = <<>>
                  /\ reads[r] = {}
                  /\ ledger = startLedger[r]

\* a second run over a fully applied source of two files has returned
C4_Witness ==
    \E r \in Runs :
        /\ pc[r] = "done"
        /\ Cardinality(MigrationNames) = 2
        /\ MigrationNames \subseteq NamesIn(startLedger[r])
        /\ \E q \in Runs : q < r /\ executed[q] # <<>>

\* C5: when a run executes a statement of a file b, every migration a that was
\* not recorded when the run began and is byte-lexically before b has already
\* been read and recorded by that run, whatever the enumeration order.
C5_LexicalOrder ==
    \A r \in Runs : \A i \in 1..Len(executed[r]) :
        \A a \in MigrationNames \ NamesIn(startLedger[r]) :
            ByteLexLess(a, executed[r][i].file) =>
                /\ a \in reads[r]
                /\ \E k \in RowsBy(r) : ledger[k].name = a

\* the directory enumerates b.sql before a.sql and a run has executed both
C5_Witness ==
    \E r \in Runs :
        /\ Len(entries) = 2
        /\ ByteLexLess(entries[2].name, entries[1].name)
        /\ \E i, j \in 1..Len(executed[r]) :
              /\ i < j
              /\ executed[r][i].file = entries[2].name
              /\ executed[r][j].file = entries[1].name

\* the files at or after the position where invocation r stands
AtOrAfter(r) == {migrations[r][k] : k \in {j \in 1..Len(migrations[r]) : j >= idx[r]}}
After(r) == {migrations[r][k] : k \in {j \in 1..Len(migrations[r]) : j > idx[r]}}

\* a failed step has made the run return an error, with nothing recorded for
\* the failing file or a later one and nothing executed of a later one
C6_Aborted ==
    \A r \in Runs :
        /\ failures[r] # {} <=> pc[r] = "failed"
        /\ Cardinality(failures[r]) <= 1
        /\ pc[r] = "failed" =>
              /\ err[r] # NoErr
              /\ \A i \in RowsBy(r) : ledger[i].name \notin AtOrAfter(r)
              /\ \A i \in 1..Len(executed[r]) : executed[r][i].file \notin After(r)
              /\ \A x \in failures[r] :
                    x.file # <<>> => x.file \in AtOrAfter(r) \ After(r)

\* a run that has returned an error does nothing more
C6_Stopped ==
    \A r \in Runs :
        pc[r] = "failed" =>
            /\ pc'[r] = "failed"
            /\ err'[r] = err[r]
            /\ executed'[r] = executed[r]
            /\ reads'[r] = reads[r]
            /\ failures'[r] = failures[r]
            /\ {i \in 1..Len(ledger') : ledger'[i].run = r} = RowsBy(r)

\* C6: the runner aborts on the first failure: the run returns an error, no
\* further statement of the failing file or of a later file is executed and no
\* record is inserted for the failing file or a later one.
C6_AbortOnFirstFailure == []C6_Aborted /\ [][C6_Stopped]_vars

\* a run failed in its first file after executing a statement of it, with a
\* later file pending, and another run has begun since
C6_Witness ==
    \E r, q \in Runs :
        /\ pc[r] = "failed"
        /\ executed[r] # <<>>
        /\ After(r) # {}
        /\ RowsBy(r) = {}
        /\ r < q /\ executed[q] # <<>>

(***************************************************************************)
(* Properties of the statement splitter (one file, NameASql).              *)
(***************************************************************************)
\* the statements invocation r passed to db.db.Exec, in order
Stmts(r) == [i \in 1..Len(executed[r]) |-> executed[r][i].stmt]

\* invocation r read the file, split all of it and returned nil
SplitDone(r) == pc[r] = "done" /\ NameASql \in reads[r]

\* the script, and its part between Header and Trailer when it has both
Script == files[NameASql]
HasHeader(t) == Len(t) >= Len(Header) /\ Slice(t, 0, Len(Header)) = Header
HasTrailer(t) ==
    /\ Len(t) >= Len(Header) + Len(Trailer)
    /\ SliceFrom(t, Len(t) - Len(Trailer)) = Trailer
Body(t) == Slice(t, Len(Header), Len(t) - Len(Trailer))

\* the script is `delimiter $$\n<body>$$\ndelimiter ;\nSELECT 1;` with a body
\* that contains neither `$$` nor `delimiter `
BodyScript(t) ==
    /\ HasHeader(t)
    /\ HasTrailer(t)
    /\ Index(Body(t), DollarDollar) = -1
    /\ Index(Body(t), Directive) = -1

OnlyDelimiterDollars(m) ==
    /\ Index(m, Directive) = -1
    /\ Index(m, DollarDollar) # -1
    /\ Index(Replace(m, DollarDollar, <<>>, -1), <<"$">>) = -1

\* C8: in a script that changes the delimiter to `$$` and then holds
\* statements terminated by `$$`, no executed statement contains a character
\* of a delimiter occurrence (stated of the runs whose statements are all
\* non-empty, an empty query being one the server rejects).
C8_DelimiterStripped ==
    \A r \in Runs :
        (/\ executed[r] # <<>>
         /\ \A i \in 1..Len(executed[r]) : executed[r][i].stmt # <<>>
         /\ HasHeader(Script)
         /\ OnlyDelimiterDollars(SliceFrom(Script, Len(Header)))) =>
            \A i \in 1..Len(executed[r]) :
                Index(executed[r][i].stmt, <<"$">>) = -1

\* the statements of a text under the delimiter `;` alone: each runs from the
\* first character that is not white space up to and including the next `;`
RECURSIVE SemiStatements(_)
SemiStatements(t) ==
    LET u == TrimLeft(t)
    IN  IF Index(u, Semi) = -1 THEN <<>>
        ELSE <<Slice(u, 0, Index(u, Semi) + 1)>>
                \o SemiStatements(SliceFrom(u, Index(u, Semi) + 1))

\* t consists of semicolon-terminated statements and white space
SemiTerminated(t) ==
    TrimSpace(t) = <<>> \/ TrimSpace(t)[Len(TrimSpace(t))] = ";"

\* the number of `;` in t
SemiCount(t) == Cardinality({i \in 1..Len(t) : t[i] = ";"})

\* C9 as claimed: a script of N semicolon-terminated statements has exactly N
\* statements executed, in order, each with its semicolon and without
\* surrounding white space, also when a statement contains `delimiter `.
C9_SemiStatementsAll ==
    \A r \in Runs :
        (SplitDone(r) /\ SemiTerminated(Script)) =>
            /\ Stmts(r) = SemiStatements(Script)
            /\ Len(Stmts(r)) = SemiCount(Script)

\* C9 as amended: the same for scripts that do not contain `delimiter `.
C9_SemiStatements ==
    \A r \in Runs :
        (/\ SplitDone(r)
         /\ SemiTerminated(Script)
         /\ Index(Script, Directive) = -1) =>
            /\ Stmts(r) = SemiStatements(Script)
            /\ Len(Stmts(r)) = SemiCount(Script)
            /\ \A i \in 1..Len(Stmts(r)) :
                  /\ Stmts(r)[i] = TrimSpace(Stmts(r)[i])
                  /\ Stmts(r)[i][Len(Stmts(r)[i])] = ";"

\* the script "a;\n a;" has been split
C9_Witness ==
    \E r \in Runs :
        /\ SplitDone(r)
        /\ Script = <<"a", ";", "\n", ";">>
        /\ Len(executed[r]) = 2

\* the scan of invocation r stands at text without delimiter and directive
Unterminated(r) ==
    /\ pc[r] = "scan"
    /\ Index(sql[r], delim[r]) = -1
    /\ Index(sql[r], Directive) = -1

MalformedErr(r) ==
    [op |-> "unexpected end of migration", arg |-> Migration(r)]

\* from such text the run fails with the error naming the migration and
\* executes and records nothing
C10_Fails ==
    \A r \in Runs :
        Unterminated(r) =>
            /\ pc'[r] = "failed"
            /\ err'[r] = MalformedErr(r)
            /\ executed' = executed
            /\ ledger' = ledger

\* a run that failed so has no record of that migration
C10_NotRecorded ==
    \A r \in Runs :
        (pc[r] = "failed" /\ idx[r] > 0 /\ err[r] = MalformedErr(r)) =>
            \A i \in RowsBy(r) : ledger[i].name # err[r].arg

\* C10: remaining text that holds neither the current delimiter nor a
\* directive makes the run fail with "unexpected end of migration" naming the
\* migration, and the file is not recorded.
C10_MalformedScript == []C10_NotRecorded /\ [][C10_Fails]_vars

\* a run failed so under the delimiter `$$` after executing a statement
C10_Witness ==
    \E r \in Runs :
        /\ pc[r] = "failed"
        /\ idx[r] > 0
        /\ err[r] = MalformedErr(r)
        /\ delim[r] = DollarDollar
        /\ executed[r] # <<>>
        /\ sql[r] # <<>>


\* the scan of invocation r stands where the directive branch is taken: a
\* directive occurs and no delimiter occurs before it
DirectiveBranch(r) ==
    /\ pc[r] = "scan"
    /\ Index(sql[r], Directive) # -1
    /\ ~ /\ Index(sql[r], delim[r]) # -1
         /\ Index(sql[r], delim[r]) < Index(sql[r], Directive)

\* from the directive branch without a line break the loop is left without
\* error and without executing anything, towards the ledger insert
C11_Stops ==
    \A r \in Runs :
        (DirectiveBranch(r) /\ Index(sql[r], NL) = -1) =>
            /\ pc'[r] = "insert"
            /\ executed' = executed
            /\ err' = err
            /\ failures' = failures

\* the script `delimiter $$` executes nothing, and a file whose run returned
\* nil is recorded
C11_Recorded ==
    \A r \in Runs :
        /\ Script = Directive \o DollarDollar => executed[r] = <<>>
        /\ SplitDone(r) => \E i \in RowsBy(r) : ledger[i].name = NameASql

\* C11: when the directive branch is taken and no line break follows, the
\* file's processing stops without error, nothing more is executed, the rest
\* is discarded and the file is still recorded; `delimiter $$` executes
\* nothing.
C11_NoLineBreakStops == []C11_Recorded /\ [][C11_Stops]_vars

\* the script "a;delimiter $$" has run: one statement, then the record
C11_Witness ==
    \E r \in Runs :
        /\ SplitDone(r)
        /\ Script = <<"a", ";">> \o Directive \o DollarDollar
        /\ Len(executed[r]) = 1
        /\ RowsBy(r) # {}


\* the names of the directory's regular files that end in .sql, whatever the
\* case of the letters
SqlFileNames ==
    {entries[i].name : i \in {j \in 1..Len(entries) :
        /\ ~entries[j].isDir
        /\ Len(entries[j].name) >= 4
        /\ ToLower(SubSeq(entries[j].name, Len(entries[j].name) - 3,
                          Len(entries[j].name))) = DotSql}}

\* the files invocation r read, executed a statement of, or recorded
Touched(r) ==
    reads[r] \cup {executed[r][i].file : i \in 1..Len(executed[r])}
             \cup {ledger[i].name : i \in RowsBy(r)}

\* C15: no subdirectory and no file whose extension is not .sql (in any case)
\* is ever read, executed or recorded.
C15_OnlySqlFiles == \A r \in Runs : Touched(r) \subseteq SqlFileNames

\* a run over a directory that also holds a.txt or the directory d.sql has
\* executed and recorded its one migration
C15_Witness ==
    \E r \in Runs :
        /\ pc[r] = "done"
        /\ executed[r] # <<>>
        /\ RowsBy(r) # {}
        /\ \E i \in 1..Len(entries) : entries[i].name \in {NameTxt, NameDir}

\* the text after the first directive token of t
AfterDirective(t) == SliceFrom(t, Index(t, Directive) + Len(Directive))

\* the delimiter and the remaining text after a directive line, as claimed
C17_Resumes ==
    \A r \in Runs :
        (DirectiveBranch(r) /\ Index(AfterDirective(sql[r]), NL) # -1) =>
            LET rest == AfterDirective(sql[r])
            IN  /\ delim'[r] = TrimSpace(Slice(rest, 0, Index(rest, NL)))
                /\ sql'[r] = TrimSpace(SliceFrom(rest, Index(rest, NL) + 1))

\* C17: when the directive branch is taken and a line break follows the
\* directive token, the new delimiter is the trimmed text between the token
\* and that line break and the scan resumes just after that line break, also
\* when other text precedes the token.
C17_DirectiveLine == [][C17_Resumes]_vars

\* C18: a file whose split fails with "unexpected end of migration" has had
\* none of its statements executed by that run.
C18_SplitBeforeExec ==
    \A r \in Runs : \A x \in failures[r] :
        x.step = "split" =>
            \A i \in 1..Len(executed[r]) : executed[r][i].file # x.file

\* every iteration of the scan loop that goes on shortens the remaining text
C20_Shortens ==
    \A r \in Runs :
        (pc[r] = "scan" /\ pc'[r] = "scan") => Len(sql'[r]) < Len(sql[r])

\* a file read by a run that has returned is recorded by that run or is the
\* file of the run's failure, and not both
C20_RecordedOrError ==
    \A r \in Runs : \A f \in reads[r] :
        pc[r] \in {"done", "failed"} =>
            (\E i \in RowsBy(r) : ledger[i].name = f)
                <=> ~(\E x \in failures[r] : x.file = f)

\* C20: the scan loop terminates for every script and every delimiter a
\* directive can set, the empty one included: each iteration that goes on
\* shortens the remaining text, so the loop ends after at most as many
\* iterations as the text has characters, and the file of a run that has
\* returned is recorded or has made the run fail, not both.
C20_ScanTerminates == []C20_RecordedOrError /\ [][C20_Shortens]_vars

\* a run under the empty delimiter, set by a directive line without a value,
\* has executed a statement and returned nil
C20_Witness ==
    \E r \in Runs :
        /\ SplitDone(r)
        /\ delim[r] = <<>>
        /\ executed[r] # <<>>

(***************************************************************************)
(* NewDB, Close, the options and the facade.                               *)
(***************************************************************************)
\* the places in `calls` of the requests `op` that `by` made on `conn`
CallsOf(by, conn, op) ==
    {i \in 1..Len(calls) :
        calls[i].by = by /\ calls[i].conn = conn /\ calls[i].op = op}

\* those that succeeded
OkCallsOf(by, conn, op) == {i \in CallsOf(by, conn, op) : calls[i].ok}

\* every request of the first set comes before every request of the second
Before(S, T) == \A i \in S : \A j \in T : i < j

\* the target database exists and holds nothing
DbEmpty == dbExists /\ ~dbObjects /\ ~tableExists /\ ledger = <<>>

\* NewDB has returned a DB
Opened == opc \in {"opened", "closed", "closeFailed"}

\* C12: in NewDB the administrative DROP comes before the administrative
\* CREATE, both before the main connection is opened and that before its
\* ping; a set option's step has succeeded when NewDB gets past it; no step
\* of runMigrations starts before the ping has succeeded; and when NewDB
\* returns a DB with dropExisting and autoCreate set and no migrations
\* directory, the database exists and is empty.
C12_OpenOrder ==
    /\ Before(CallsOf("NewDB", "admin", "DROP"),
              CallsOf("NewDB", "admin", "CREATE"))
    /\ Before(CallsOf("NewDB", "admin", "DROP")
                \cup CallsOf("NewDB", "admin", "CREATE"),
              CallsOf("NewDB", "main", "open"))
    /\ Before(CallsOf("NewDB", "main", "open"),
              CallsOf("NewDB", "main", "ping"))
    /\ CallsOf("NewDB", "main", "open") # {} =>
          /\ d.dropExisting => OkCallsOf("NewDB", "admin", "DROP") # {}
          /\ d.autoCreate => OkCallsOf("NewDB", "admin", "CREATE") # {}
    /\ pc[1] # "idle" => OkCallsOf("NewDB", "main", "ping") # {}
    /\ (opc = "opened" /\ d.dropExisting /\ d.autoCreate
            /\ d.migrationsDir = NoDir) => DbEmpty

\* NewDB has returned a DB after both administrative steps, without
\* migrations
C12_Witness ==
    /\ opc = "opened"
    /\ d.dropExisting /\ d.autoCreate /\ d.migrationsDir = NoDir
    /\ OkCallsOf("NewDB", "admin", "DROP") # {}
    /\ OkCallsOf("NewDB", "admin", "CREATE") # {}
    /\ OkCallsOf("NewDB", "main", "ping") # {}

\* NewDB has returned a DB after migrations that ran a statement
C12_WitnessMigrated ==
    /\ opc = "opened"
    /\ executed[1] # <<>>


\* Close has returned
CloseReturned == opc \in {"closed", "closeFailed"}

\* db.db.Close() in Close succeeded
MainCloseOk == OkCallsOf("Close", "main", "close") # {}

\* Close went on to dropExistingDatabaseIfExist
CloseDropIssued == CallsOf("Close", "admin", "open") # {}

\* what the server holds of the target database
Database == <<dbExists, dbObjects, tableExists, ledger>>

\* a returned Close has gone on to the drop exactly when dropOnClose is set
\* and the main close succeeded, and its DROP statement was sent only then
C13_DropIffClosed ==
    CloseReturned =>
        /\ CloseDropIssued <=> (d.dropOnClose /\ MainCloseOk)
        /\ CallsOf("Close", "admin", "DROP") # {} =>
              (d.dropOnClose /\ MainCloseOk)

\* Close changes the database only with dropOnClose set and after a main
\* close that succeeded
C13_IntactOtherwise ==
    (opc = "opened" /\ opc' # "opened" /\ Database' # Database) =>
        /\ d.dropOnClose
        /\ calls'[Len(calls) + 1] = Call("Close", "main", "close", TRUE)
        /\ ~dbExists'

\* C13: Close with dropOnClose set goes on to the administrative DROP of the
\* target database if and only if db.db.Close() succeeded; if it failed the
\* drop is skipped and the database is as it was; without dropOnClose Close
\* never drops the database.
C13_CloseDrop == []C13_DropIffClosed /\ [][C13_IntactOtherwise]_vars

\* Close with dropOnClose set has closed the main connection and dropped a
\* database that existed
C13_Witness ==
    /\ opc = "closed"
    /\ d.dropOnClose
    /\ MainCloseOk
    /\ OkCallsOf("Close", "admin", "DROP") # {}
    /\ ~dbExists
    /\ OkCallsOf("NewDB", "main", "ping") # {}

\* Close with dropOnClose set whose main close failed
C13_WitnessSkipped ==
    /\ opc = "closeFailed"
    /\ d.dropOnClose
    /\ ~MainCloseOk
    /\ dbExists


\* the fields of a DB
Fields == DOMAIN ZeroDB

\* d after the step is d with exactly the fields of S set anew
OnlyChanged(S) == \A f \in Fields \ S : d'[f] = d[f]

\* one turn of the options loop sets the fields of the option it applied and
\* no other
C16_Frame ==
    (opc = "options" /\ opc' = "options") =>
        LET o == lastOption'
        IN  CASE o.opt = "AutoCreateDB" ->
                   d'.autoCreate = TRUE /\ OnlyChanged({"autoCreate"})
              [] o.opt = "DropExistingDB" ->
                   d'.dropExisting = TRUE /\ OnlyChanged({"dropExisting"})
              [] o.opt = "DropDBOnClose" ->
                   d'.dropOnClose = TRUE /\ OnlyChanged({"dropOnClose"})
              [] o.opt = "WithMigrations" ->
                   /\ d'.migrationsFS = o.fsys
                   /\ d'.migrationsDir = o.dir
                   /\ OnlyChanged({"migrationsFS", "migrationsDir"})
              [] OTHER -> FALSE

\* C16: applying an option sets exactly that option's fields (AutoCreateDB:
\* autoCreate; DropExistingDB: dropExisting; WithMigrations(fs, dir):
\* migrationsFS and migrationsDir; DropDBOnClose: dropOnClose) and leaves every
\* other field of the DB as it was, whatever was applied before and in
\* whatever order.
C16_OptionFrame == [][C16_Frame]_vars

\* WithMigrations applied after the three other options and after another
\* WithMigrations, whose values it replaced
C16_Witness ==
    /\ opc = "options"
    /\ lastOption = [opt |-> "WithMigrations", fsys |-> FsB, dir |-> NoDir]
    /\ d = [ZeroDB EXCEPT !.autoCreate = TRUE, !.dropExisting = TRUE,
                          !.dropOnClose = TRUE, !.migrationsFS = FsB]


\* C14: Exec, Query and QueryRow of DB and of Tx, called with a query and
\* n >= 0 parameters, hand the underlying connection or transaction the same
\* query and exactly those n parameters in the same order.
C14_PassesArgs ==
    facade.method # "" =>
        /\ facade.passedQuery = facade.query
        /\ Len(facade.passedArgs) = Len(facade.args)
        /\ \A i \in 1..Len(facade.args) :
              facade.passedArgs[i] = facade.args[i]


\* the error names the operation that failed
HasContext(e) == e.op # ""

\* the error names the file
NamesFile(e, file) == Index(e.arg, file) # -1

\* C19: every error returned by NewDB or by runMigrations names the operation
\* that failed, and every error of runMigrations that a migration file caused
\* (ledger lookup, file read, malformed script, statement execution, ledger
\* insert) names that file.
C19_ErrorsCarryContext ==
    /\ opc = "openFailed" => HasContext(retErr)
    /\ pc[1] = "failed" =>
          /\ HasContext(err[1])
          /\ \A x \in failures[1] :
                x.file # <<>> => NamesFile(err[1], x.file)

====
